---------------------------- MODULE Spec2Model ----------------------------
(***************************************************************************)
(* Model of src/app.py (Tactical Weather Ops dashboard): the normalizer    *)
(* flatten_cuaca_entry, the derived-metrics functions and the dashboard    *)
(* script that chains them.                                                *)
(*                                                                         *)
(* Python floats are modelled in fixed point: a number of the payload (a   *)
(* temperature, a wind speed in m/s, a visibility in metres, a rain amount *)
(* in mm, a cloud cover in percent) is an integer number of 1/Unit; a wind *)
(* speed in knots, the product of a payload number and MS_TO_KT, is an     *)
(* integer number of 1/KT knots.  Ceilings are whole feet.                 *)
(* A Python value is a tagged tuple, the tag first, so that values of      *)
(* different Python types can be compared.                                 *)
(***************************************************************************)
EXTENDS Integers, Sequences, FiniteSets, TLC

VARIABLES
    \* calls of one function: the current call, the call before it, and the
    \* location block (an object of the caller) passed to flatten_cuaca_entry
    call, prevCall, entry,
    \* a run of the dashboard script
    pc,             \* the section of the script the run is at
    net,            \* what the forecast API answers in this run
    show,           \* the sidebar checkboxes
    raw, mapping, loc_choice, selected_entry,
    df, start_dt, df_sel, now,
    prep,           \* the values prepared from `now` for the panels
    matrix,         \* ifr_vfr, takeoff_reco, landing_reco, reco_rationale
    shown,          \* what the run has rendered, in order
    exc             \* the exception that left the try block, if any

callVars == <<call, prevCall, entry>>
runVars == <<pc, net, show, raw, mapping, loc_choice, selected_entry,
             df, start_dt, df_sel, now, prep, matrix, shown, exc>>
vars == <<callVars, runVars>>

-----------------------------------------------------------------------------
(* Bounds of the model *)

\* how far around each threshold of the code the numeric inputs are drawn
Margin == 1
\* the most groups in a block's `cuaca`, and the most entries in a group
MaxGroups == 2
MaxItems == 2
\* the most entries in all the groups of a block together
MaxEntries == 3
\* the most location blocks in the `data` of a response
MaxBlocks == 2

-----------------------------------------------------------------------------
(* Python values *)

None == <<"none">>
NaN == <<"nan">>
NaT == <<"nat">>
Num(n) == <<"num", n>>
Str(s) == <<"str", s>>
Dt(n) == <<"dt", n>>
\* a dict is a function from its keys, a list a sequence
Dict(f) == <<"dict", f>>
List(q) == <<"list", q>>
EmptyDict == Dict([k \in {} |-> None])

IsDict(x) == x[1] = "dict"
IsList(x) == x[1] = "list"
Keys(d) == DOMAIN d[2]

\* d.get(k, default)
dict_get(d, k, default) == IF k \in Keys(d) THEN d[2][k] ELSE default
\* d.update(u)
dict_update(d, u) ==
    Dict([k \in Keys(d) \cup Keys(u) |-> IF k \in Keys(u) THEN u[2][k] ELSE d[2][k]])
\* d[k] = v
dict_set(d, k, v) ==
    Dict([j \in Keys(d) \cup {k} |-> IF j = k THEN v ELSE d[2][j]])

IsNum(x) == x[1] = "num"
Val(x) == x[2]

\* pd.isna / pd.notna on a scalar
isna(x) == x = None \/ x = NaN \/ x = NaT
notna(x) == ~isna(x)

Near(t, m) == (t - m)..(t + m)

-----------------------------------------------------------------------------
(* Fixed-point units *)

\* resolution of a float: hundredths
Unit == 100
M == Unit
MM == Unit
PCT == Unit

\* MS_TO_KT = 1.94384 (five decimals): x * MS_TO_KT, for x in 1/Unit, is in 1/KT
MS_TO_KT == 194384
KT == Unit * 100000
\* 1609.34 metres per statute mile, in 1/Unit metres
METERS_PER_SM == 160934

-----------------------------------------------------------------------------
(* takeoff_landing_recommendation *)

Recommended == "Recommended"
Caution == "Caution"
NotRecommended == "Not Recommended"

RecoStart == [takeoff |-> Recommended, landing |-> Recommended, rationale |-> <<>>]

\* if ws_kt >= 30: both Not Recommended; elif ws_kt >= 20: note only
WindRule(s, ws_kt) ==
    IF notna(ws_kt) /\ Val(ws_kt) >= 30 * KT
    THEN [takeoff |-> NotRecommended, landing |-> NotRecommended,
          rationale |-> Append(s.rationale, "High surface wind")]
    ELSE IF notna(ws_kt) /\ Val(ws_kt) >= 20 * KT
    THEN [s EXCEPT !.rationale = Append(@, "Strong wind")]
    ELSE s

VisRule_takeoff_only(s, vs_m) ==
    IF notna(vs_m) /\ Val(vs_m) < 1000 * M
    THEN [s EXCEPT !.takeoff = NotRecommended,
                   !.rationale = Append(@, "Low visibility")]
    ELSE s

\* if vs_m < 1000: landing Not Recommended
VisRule(s, vs_m) ==
    IF notna(vs_m) /\ Val(vs_m) < 1000 * M
    THEN [s EXCEPT !.landing = NotRecommended,
                   !.rationale = Append(@, "Low visibility")]
    ELSE s

RainRule_note_from_5(s, tp_mm) ==
    IF notna(tp_mm) /\ Val(tp_mm) >= 20 * MM
    THEN [takeoff |-> Caution, landing |-> Caution,
          rationale |-> Append(s.rationale, "Heavy accumulated rain")]
    ELSE IF notna(tp_mm) /\ Val(tp_mm) >= 5 * MM
    THEN [s EXCEPT !.rationale = Append(@, "Moderate rainfall")]
    ELSE s

\* if tp_mm >= 20: both Caution; elif tp_mm > 5: note only
RainRule(s, tp_mm) ==
    IF notna(tp_mm) /\ Val(tp_mm) >= 20 * MM
    THEN [takeoff |-> Caution, landing |-> Caution,
          rationale |-> Append(s.rationale, "Heavy accumulated rain")]
    ELSE IF notna(tp_mm) /\ Val(tp_mm) > 5 * MM
    THEN [s EXCEPT !.rationale = Append(@, "Moderate rainfall")]
    ELSE s

\* if not rationale: the "within limits" entry
DefaultRationale(s) ==
    IF s.rationale = <<>>
    THEN [s EXCEPT !.rationale = <<"Conditions within conservative operational limits.">>]
    ELSE s

takeoff_landing_recommendation(ws_kt, vs_m, tp_mm) ==
    DefaultRationale(RainRule(VisRule(WindRule(RecoStart, ws_kt), vs_m), tp_mm))

-----------------------------------------------------------------------------
(* ceiling_proxy_from_tcc *)

tcc_lt_50_inclusive(tcc) == tcc <= 50 * PCT

\* elif tcc < 50
tcc_lt_50(tcc) == tcc < 50 * PCT

ceiling_proxy_from_tcc(tcc_pct) ==
    IF isna(tcc_pct) THEN [ft |-> None, label |-> "Unknown"]
    ELSE LET tcc == Val(tcc_pct) IN
         IF tcc < 1 * PCT THEN [ft |-> Num(99999), label |-> "SKC (Clear)"]
         ELSE IF tcc < 25 * PCT THEN [ft |-> Num(3500), label |-> "FEW (>3000 ft)"]
         ELSE IF tcc_lt_50(tcc) THEN [ft |-> Num(2250), label |-> "SCT (1500-3000 ft)"]
         ELSE IF tcc < 75 * PCT THEN [ft |-> Num(1250), label |-> "BKN (1000-1500 ft)"]
         ELSE [ft |-> Num(800), label |-> "OVC (<1000 ft)"]

-----------------------------------------------------------------------------
(* classify_ifr_vfr *)

\* a comparison with a NaN operand is False
Gt(x, n) == IsNum(x) /\ Val(x) > n
Ge(x, n) == IsNum(x) /\ Val(x) >= n
Lt(x, n) == IsNum(x) /\ Val(x) < n
Le(x, n) == IsNum(x) /\ Val(x) <= n

\* vis_sm = float(visibility_m) / 1609.34, compared with k statute miles:
\* v / 1609.34 >= k exactly when v >= k * 1609.34
vis_sm_ge(visibility_m, k) == Val(visibility_m) >= k * METERS_PER_SM
vis_sm_lt(visibility_m, k) == Val(visibility_m) < k * METERS_PER_SM

is_vfr_ceiling_ge(visibility_m, ceiling_ft) ==
    vis_sm_ge(visibility_m, 5) /\ Ge(ceiling_ft, 3000)

\* if vis_sm >= 5 and ceiling_ft > 3000
is_vfr(visibility_m, ceiling_ft) ==
    vis_sm_ge(visibility_m, 5) /\ Gt(ceiling_ft, 3000)

\* if (3 <= vis_sm < 5) or (1000 < ceiling_ft <= 3000)
is_mvfr(visibility_m, ceiling_ft) ==
    \/ vis_sm_ge(visibility_m, 3) /\ vis_sm_lt(visibility_m, 5)
    \/ Gt(ceiling_ft, 1000) /\ Le(ceiling_ft, 3000)

\* if vis_sm < 3 or ceiling_ft <= 1000
is_ifr(visibility_m, ceiling_ft) ==
    vis_sm_lt(visibility_m, 3) \/ Le(ceiling_ft, 1000)

classify_ifr_vfr(visibility_m, ceiling_ft) ==
    IF visibility_m = None \/ isna(visibility_m) THEN "Unknown"
    ELSE IF ceiling_ft = None
    THEN IF vis_sm_ge(visibility_m, 3) THEN "VFR"
         ELSE IF vis_sm_ge(visibility_m, 1) THEN "MVFR"
         ELSE "IFR"
    ELSE IF is_vfr(visibility_m, ceiling_ft) THEN "VFR"
    ELSE IF is_mvfr(visibility_m, ceiling_ft) THEN "MVFR"
    ELSE IF is_ifr(visibility_m, ceiling_ft) THEN "IFR"
    ELSE "Unknown"

-----------------------------------------------------------------------------
(* pd.to_numeric(errors="coerce") and pd.to_datetime(errors="coerce") *)

IsDigit(c) == c \in {"0", "1", "2", "3", "4", "5", "6", "7", "8", "9"}
DigitVal(c) ==
    CASE c = "0" -> 0 [] c = "1" -> 1 [] c = "2" -> 2 [] c = "3" -> 3 [] c = "4" -> 4
      [] c = "5" -> 5 [] c = "6" -> 6 [] c = "7" -> 7 [] c = "8" -> 8 [] c = "9" -> 9

RECURSIVE AllDigits(_)
AllDigits(s) == s = "" \/ (IsDigit(Head(s)) /\ AllDigits(Tail(s)))

RECURSIVE DigitsValue(_)
DigitsValue(s) ==
    IF s = "" THEN 0
    ELSE DigitsValue(SubSeq(s, 1, Len(s) - 1)) * 10 + DigitVal(SubSeq(s, Len(s), Len(s)))

RECURSIVE Pow10(_)
Pow10(n) == IF n = 0 THEN 1 ELSE 10 * Pow10(n - 1)

\* the place of the first "." of s, 0 when it has none
RECURSIVE DotAt(_, _)
DotAt(s, i) ==
    IF i > Len(s) THEN 0
    ELSE IF SubSeq(s, i, i) = "." THEN i
    ELSE DotAt(s, i + 1)

\* an unsigned decimal literal ("30", "19.4", ".5", "2.") in 1/Unit, digits
\* beyond the resolution cut; NaN when the text is no such literal
ParseUnsigned(s) ==
    LET dot == DotAt(s, 1)
        ip == IF dot = 0 THEN s ELSE SubSeq(s, 1, dot - 1)
        fp == IF dot = 0 THEN "" ELSE SubSeq(s, dot + 1, Len(s))
    IN IF ~(AllDigits(ip) /\ AllDigits(fp)) \/ (ip = "" /\ fp = "") THEN NaN
       ELSE Num(DigitsValue(ip) * Unit + (DigitsValue(fp) * Unit) \div Pow10(Len(fp)))

ParseFloat(s) ==
    IF s = "" THEN NaN
    ELSE IF Head(s) = "-"
    THEN LET u == ParseUnsigned(Tail(s)) IN IF IsNum(u) THEN Num(0 - Val(u)) ELSE NaN
    ELSE ParseUnsigned(s)

\* one value of a column under pd.to_numeric(errors="coerce"): a number is
\* kept, a numeric text is parsed, anything else becomes NaN
to_numeric(v) ==
    CASE v[1] = "num" -> v
      [] v[1] = "str" -> ParseFloat(v[2])
      [] OTHER -> NaN

TwoDigits(s, i) == SubSeq(s, i, i + 1)

\* "YYYY-MM-DDTHH:MM:SS" (or with a blank for the T), as seconds counted from
\* 2000 on a calendar of 31-day months: the order of two timestamps is kept
ParseIso(s) ==
    IF Len(s) # 19 THEN NaT
    ELSE LET y == SubSeq(s, 1, 4)
             mo == TwoDigits(s, 6)
             d == TwoDigits(s, 9)
             h == TwoDigits(s, 12)
             mi == TwoDigits(s, 15)
             se == TwoDigits(s, 18)
         IN IF /\ AllDigits(y) /\ AllDigits(mo) /\ AllDigits(d)
               /\ AllDigits(h) /\ AllDigits(mi) /\ AllDigits(se)
               /\ SubSeq(s, 5, 5) = "-" /\ SubSeq(s, 8, 8) = "-"
               /\ SubSeq(s, 11, 11) \in {"T", " "}
               /\ SubSeq(s, 14, 14) = ":" /\ SubSeq(s, 17, 17) = ":"
               /\ DigitsValue(mo) \in 1..12 /\ DigitsValue(d) \in 1..31
               /\ DigitsValue(h) < 24 /\ DigitsValue(mi) < 60 /\ DigitsValue(se) < 60
            THEN Dt((((((DigitsValue(y) - 2000) * 12 + DigitsValue(mo)) * 31 + DigitsValue(d)) * 24
                       + DigitsValue(h)) * 60 + DigitsValue(mi)) * 60 + DigitsValue(se))
            ELSE NaT

\* pd.to_datetime(v, errors="coerce") as the table stores it: a timestamp, or
\* a null datetime for a missing or unparseable text
to_datetime(v) ==
    CASE v[1] = "str" -> ParseIso(v[2])
      [] OTHER -> NaT

-----------------------------------------------------------------------------
(* flatten_cuaca_entry *)

LOKASI_KEYS == {"adm1", "adm2", "provinsi", "kotkab", "lon", "lat"}
NUMERIC_COLUMNS == {"t", "tcc", "tp", "wd_deg", "ws", "hu", "vs", "ws_kt"}

\* the dict of r.update({...}): the six keys, each lokasi.get(key)
lokasi_fields(lokasi) == Dict([k \in LOKASI_KEYS |-> dict_get(lokasi, k, None)])

make_row_obs_wins(obs, lokasi) ==
    LET r1 == dict_update(lokasi_fields(lokasi), obs)
        r2 == dict_set(r1, "utc_datetime_dt", to_datetime(dict_get(r1, "utc_datetime", None)))
    IN dict_set(r2, "local_datetime_dt", to_datetime(dict_get(r2, "local_datetime", None)))

\* the row built from one observation dict
make_row(obs, lokasi) ==
    LET r1 == dict_update(obs, lokasi_fields(lokasi))
        r2 == dict_set(r1, "utc_datetime_dt", to_datetime(dict_get(r1, "utc_datetime", None)))
    IN dict_set(r2, "local_datetime_dt", to_datetime(dict_get(r2, "local_datetime", None)))

obs_alias(obs, lokasi) == make_row(obs, lokasi)

\* r = obs.copy(): r is another object than obs, so what is written to r is
\* not written to the observation of the input block; this is the
\* observation after the row was built
obs_after_copy(obs, lokasi) == obs

RECURSIVE SetToSeq(_)
SetToSeq(S) == IF S = {} THEN <<>> ELSE LET x == CHOOSE x \in S : TRUE IN <<x>> \o SetToSeq(S \ {x})

\* what `for obs in group` yields: the entries of a list, the keys of a dict
iterate(group) ==
    IF IsList(group) THEN group[2]
    ELSE LET ks == SetToSeq(Keys(group)) IN [i \in 1..Len(ks) |-> Str(ks[i])]

\* the inner loop from entry i on; acc = [rows, raised, items]: the rows so
\* far, whether an exception left the loop, and the group's entries as the
\* loop leaves them.  obs.copy() / r.update() raise AttributeError on an
\* entry that is no dict.
RECURSIVE group_loop(_, _, _, _)
group_loop(items, i, lokasi, acc) ==
    IF i > Len(items) \/ acc.raised THEN acc
    ELSE IF ~IsDict(items[i]) THEN [acc EXCEPT !.raised = TRUE]
    ELSE group_loop(items, i + 1, lokasi,
                    [rows |-> Append(acc.rows, make_row(items[i], lokasi)),
                     raised |-> FALSE,
                     items |-> [acc.items EXCEPT ![i] = obs_after_copy(items[i], lokasi)]])

\* the outer loop from group g on; acc = [rows, raised, groups]
RECURSIVE cuaca_loop(_, _, _, _)
cuaca_loop(groups, g, lokasi, acc) ==
    IF g > Len(groups) \/ acc.raised THEN acc
    ELSE LET items == iterate(groups[g])
             res == group_loop(items, 1, lokasi,
                               [rows |-> acc.rows, raised |-> FALSE, items |-> items])
         IN cuaca_loop(groups, g + 1, lokasi,
                       [rows |-> res.rows,
                        raised |-> res.raised,
                        groups |-> IF IsList(groups[g])
                                   THEN [acc.groups EXCEPT ![g] = List(res.items)]
                                   ELSE acc.groups])

\* pd.DataFrame(rows): the columns are the keys of all rows, and a row that
\* lacks a column holds NaN there
DataFrame(rows) ==
    LET columns == UNION {Keys(rows[i]) : i \in 1..Len(rows)}
    IN [columns |-> columns,
        rows |-> [i \in 1..Len(rows) |-> [c \in columns |-> dict_get(rows[i], c, NaN)]]]

\* for c in [...]: if c in df.columns: df[c] = pd.to_numeric(df[c], errors="coerce")
coerce_numeric(frame) ==
    [frame EXCEPT !.rows = [i \in 1..Len(frame.rows) |->
        [c \in frame.columns |-> IF c \in NUMERIC_COLUMNS THEN to_numeric(frame.rows[i][c])
                                 ELSE frame.rows[i][c]]]]

\* The call on the block `e`: [ret, entry]: what it returns (a table, or the
\* exception that left it) and the block as the call leaves it.
flatten_cuaca_entry(e) ==
    LET lokasi == dict_get(e, "lokasi", EmptyDict)
        cuaca == dict_get(e, "cuaca", List(<<>>))
        res == cuaca_loop(cuaca[2], 1, lokasi,
                          [rows |-> <<>>, raised |-> FALSE, groups |-> cuaca[2]])
        after == IF "cuaca" \in Keys(e) THEN dict_set(e, "cuaca", List(res.groups)) ELSE e
    IN [ret |-> IF res.raised THEN [kind |-> "raise", exc |-> "AttributeError"]
                ELSE [kind |-> "df", df |-> coerce_numeric(DataFrame(res.rows))],
        entry |-> after]

-----------------------------------------------------------------------------
(* Location blocks of a response *)

ObsNoon ==
    Dict([t |-> Str("30"), hu |-> Str("80"), ws |-> Str("10"), wd_deg |-> Str("90"),
          vs |-> Str("2000"), tp |-> Str("25"), tcc |-> Str("90"),
          local_datetime |-> Str("2025-01-01T12:00:00")])

\* an observation with fields named like location fields, a number given as
\* a number, a text that is no number and a timestamp that does not parse
ObsOwnLocation ==
    Dict([t |-> Str("abc"), ws |-> Num(17 * Unit), vs |-> Str("800.5"), tp |-> Str("0"),
          kotkab |-> Str("Bogor"), lat |-> Str("0"),
          utc_datetime |-> Str("2025-01-01 08:00:00"),
          local_datetime |-> Str("n/a")])

Items == {ObsNoon, ObsOwnLocation, Str("x")}

Lists(S, n) == UNION {[1..k -> S] : k \in 0..n}

\* a group: a list of entries, or (the other shape of the API) a dict
Groups == {List(q) : q \in Lists(Items, MaxItems)} \cup {ObsNoon}

LokasiJakarta == Dict([lat |-> Str("-6.2"), lon |-> Str("106.8"), kotkab |-> Str("Jakarta")])
LokasiFull ==
    Dict([adm1 |-> Str("32"), adm2 |-> Str("32.01"), provinsi |-> Str("Jawa Barat"),
          kotkab |-> Str("Bogor"), lon |-> Str("106.8"), lat |-> Str("-6.6")])

\* entries of a cuaca list: those of its lists, and one for a dict-shaped group
RECURSIVE entries_in(_)
entries_in(c) ==
    IF c = <<>> THEN 0
    ELSE (IF IsList(Head(c)) THEN Len(Head(c)[2]) ELSE 1) + entries_in(Tail(c))

\* entry["cuaca"]: a list of groups
Cuacas == {c \in Lists(Groups, MaxGroups) : entries_in(c) <= MaxEntries}

Blocks ==
    {Dict([lokasi |-> l, cuaca |-> List(c)]) : l \in {LokasiJakarta, LokasiFull}, c \in Cuacas}
    \cup {Dict([cuaca |-> List(c)]) : c \in Cuacas}
    \cup {Dict([lokasi |-> LokasiJakarta])}

-----------------------------------------------------------------------------
(* Calls of a pure function: the current call and the one before it *)

NoCall == [fn |-> "none"]

WsKtInputs == {None, NaN} \cup {Num(n) : n \in Near(20 * KT, Margin) \cup Near(30 * KT, Margin)}
VsInputs == {None, NaN} \cup {Num(n) : n \in Near(1000 * M, Margin)}
TpInputs == {None, NaN} \cup {Num(n) : n \in Near(5 * MM, Margin) \cup Near(20 * MM, Margin)}

TccInputs ==
    {None, NaN} \cup
    {Num(n) : n \in {-1 * PCT, 0, 100 * PCT} \cup Near(1 * PCT, Margin) \cup Near(25 * PCT, Margin)
                    \cup Near(50 * PCT, Margin) \cup Near(75 * PCT, Margin)}

VisClassInputs ==
    {None, NaN} \cup
    {Num(n) : n \in Near(1 * METERS_PER_SM, Margin) \cup Near(3 * METERS_PER_SM, Margin)
                    \cup Near(5 * METERS_PER_SM, Margin)}
CeilingInputs ==
    {None, NaN} \cup
    {Num(n) : n \in {800, 1250, 2250, 3500, 99999} \cup Near(1000, Margin) \cup Near(3000, Margin)}

\* no run of the script
NoRun ==
    /\ pc = "idle" /\ net = None /\ show = None /\ raw = None /\ mapping = <<>>
    /\ loc_choice = None /\ selected_entry = None /\ df = None /\ start_dt = None
    /\ df_sel = None /\ now = None /\ prep = None /\ matrix = None /\ shown = <<>>
    /\ exc = None

InitCalls ==
    /\ call = NoCall
    /\ prevCall = NoCall
    /\ entry = None
    /\ NoRun

InitFlatten ==
    /\ call = NoCall
    /\ prevCall = NoCall
    /\ entry \in Blocks
    /\ NoRun

CallReco ==
    /\ prevCall = NoCall
    /\ \E ws_kt \in WsKtInputs, vs_m \in VsInputs, tp_mm \in TpInputs :
          call' = [fn |-> "takeoff_landing_recommendation",
                   args |-> <<ws_kt, vs_m, tp_mm>>,
                   ret |-> takeoff_landing_recommendation(ws_kt, vs_m, tp_mm)]
    /\ prevCall' = call
    /\ UNCHANGED <<entry, runVars>>

CallCeiling ==
    /\ prevCall = NoCall
    /\ \E tcc_pct \in TccInputs :
          call' = [fn |-> "ceiling_proxy_from_tcc",
                   args |-> <<tcc_pct>>,
                   ret |-> ceiling_proxy_from_tcc(tcc_pct)]
    /\ prevCall' = call
    /\ UNCHANGED <<entry, runVars>>

CallClassify ==
    /\ prevCall = NoCall
    /\ \E visibility_m \in VisClassInputs, ceiling_ft \in CeilingInputs :
          call' = [fn |-> "classify_ifr_vfr",
                   args |-> <<visibility_m, ceiling_ft>>,
                   ret |-> classify_ifr_vfr(visibility_m, ceiling_ft)]
    /\ prevCall' = call
    /\ UNCHANGED <<entry, runVars>>

\* a call of flatten_cuaca_entry on the block: the block is passed by
\* reference, so what the call writes to it stays written
CallFlatten ==
    /\ prevCall = NoCall
    /\ LET res == flatten_cuaca_entry(entry) IN
          /\ call' = [fn |-> "flatten_cuaca_entry", args |-> <<entry>>, ret |-> res.ret]
          /\ entry' = res.entry
    /\ prevCall' = call
    /\ UNCHANGED runVars

SpecReco == InitCalls /\ [][CallReco]_vars
SpecCeiling == InitCalls /\ [][CallCeiling]_vars
SpecClassify == InitCalls /\ [][CallClassify]_vars
SpecFlatten == InitFlatten /\ [][CallFlatten]_vars

-----------------------------------------------------------------------------
(* The dashboard script: one run of the try block and what follows it *)

ObsAfternoon ==
    Dict([t |-> Str("31.5"), hu |-> Str("70"), ws |-> Str("17"), wd_deg |-> Str("270"),
          vs |-> Str("800"), tp |-> Str("25"), tcc |-> Str("40"),
          local_datetime |-> Str("2025-01-01T15:00:00")])

BlockJakarta == Dict([lokasi |-> LokasiJakarta, cuaca |-> List(<<List(<<ObsNoon>>)>>)])
BlockBogor ==
    Dict([lokasi |-> LokasiFull,
          cuaca |-> List(<<List(<<ObsAfternoon, ObsNoon>>), List(<<ObsOwnLocation>>)>>)])
BlockNoLokasi == Dict([cuaca |-> List(<<List(<<ObsOwnLocation>>), List(<<ObsOwnLocation>>)>>)])
BlockBadEntry == Dict([lokasi |-> LokasiJakarta, cuaca |-> List(<<List(<<ObsNoon, Str("x")>>)>>)])
BlockNoCuaca == Dict([lokasi |-> Dict([adm2 |-> Str("32.02")])])

\* an observation that carries its own ws_kt and has no timestamp
ObsWithKt ==
    Dict([t |-> Str("28"), hu |-> Str("85"), ws |-> Str("10"), ws_kt |-> Str("25"),
          wd_deg |-> Str("180"), vs |-> Str("9000"), tp |-> Str("0"), tcc |-> Str("10")])
LokasiDepok == Dict([lat |-> Str("-6.4"), lon |-> Str("106.8"), kotkab |-> Str("Depok")])
BlockOwnKt == Dict([lokasi |-> LokasiDepok, cuaca |-> List(<<List(<<ObsNoon, ObsWithKt>>)>>)])

SampleBlocks ==
    {BlockJakarta, BlockBogor, BlockNoLokasi, BlockBadEntry, BlockNoCuaca, BlockOwnKt}

Responses == {Dict([data |-> List(q)]) : q \in Lists(SampleBlocks, MaxBlocks)} \cup {EmptyDict}

\* what requests.get / raise_for_status / resp.json() come to in fetch_forecast
NetOutcomes ==
    {[kind |-> "ok", body |-> r] : r \in Responses}
    \cup {[kind |-> "HTTPError"], [kind |-> "ConnectionError"], [kind |-> "Timeout"]}

InitRun ==
    /\ call = NoCall /\ prevCall = NoCall /\ entry = None
    /\ pc = "fetch"
    /\ net \in NetOutcomes
    /\ show \in [map : BOOLEAN, table : BOOLEAN, qam : BOOLEAN]
    /\ raw = None /\ mapping = <<>> /\ loc_choice = None /\ selected_entry = None
    /\ df = None /\ start_dt = None /\ df_sel = None /\ now = None
    /\ prep = None /\ matrix = None /\ shown = <<>> /\ exc = None

\* an exception leaves the try block at this point
Raise(e) == pc' = "except" /\ exc' = e
Stop_goes_on == pc' = "export"

\* st.stop(): the run ends here, nothing after it is run
Stop == pc' = "stopped"
Render(what) == shown' = shown \o what

\* resp = requests.get(...); resp.raise_for_status(); return resp.json():
\* what the call returns, or the exception that leaves it
fetch_forecast(outcome) ==
    IF outcome.kind = "ok" THEN [kind |-> "return", value |-> outcome.body]
    ELSE [kind |-> "raise", exc |-> outcome.kind]

\* raw = fetch_forecast(adm1)
Fetch ==
    /\ pc = "fetch"
    /\ LET res == fetch_forecast(net) IN
       IF res.kind = "return"
       THEN raw' = res.value /\ pc' = "entries" /\ exc' = exc
       ELSE Raise(res.exc) /\ raw' = raw
    /\ UNCHANGED <<callVars, net, show, mapping, loc_choice, selected_entry,
                   df, start_dt, df_sel, now, prep, matrix, shown>>

\* entries = raw.get("data", []); if not entries: warning, stop
Entries(r) == dict_get(r, "data", List(<<>>))[2]

CheckEntries ==
    /\ pc = "entries"
    /\ IF Entries(raw) = <<>>
       THEN Render(<<"warning: No forecast data available.">>) /\ Stop
       ELSE pc' = "select" /\ shown' = shown
    /\ UNCHANGED <<callVars, net, show, raw, mapping, loc_choice, selected_entry,
                   df, start_dt, df_sel, now, prep, matrix, exc>>

\* the decimal text of a natural number
RECURSIVE IntToStr(_)
IntToStr(n) ==
    LET d == SubSeq("0123456789", (n % 10) + 1, (n % 10) + 1)
    IN IF n < 10 THEN d ELSE IntToStr(n \div 10) \o d

\* the truth value of x in `x or y`
Truthy(x) == x # None /\ x # Str("")

\* lok.get("kotkab") or lok.get("adm2") or f"Location {len(mapping)+1}"
label_of(e, n) ==
    LET lok == dict_get(e, "lokasi", EmptyDict)
    IN IF Truthy(dict_get(lok, "kotkab", None)) THEN dict_get(lok, "kotkab", None)
       ELSE IF Truthy(dict_get(lok, "adm2", None)) THEN dict_get(lok, "adm2", None)
       ELSE Str("Location " \o IntToStr(n + 1))

\* mapping[label] = {"entry": e}: a dict keeps the place of a key that is
\* assigned again; the mapping is a sequence of [label, entry]
mapping_set(m, label, e) ==
    IF \E i \in 1..Len(m) : m[i].label = label
    THEN [i \in 1..Len(m) |-> IF m[i].label = label THEN [label |-> label, entry |-> e] ELSE m[i]]
    ELSE Append(m, [label |-> label, entry |-> e])

RECURSIVE build_mapping(_, _, _)
build_mapping(entries, i, m) ==
    IF i > Len(entries) THEN m
    ELSE build_mapping(entries, i + 1, mapping_set(m, label_of(entries[i], Len(m)), entries[i]))

\* the mapping, the selectbox with the user's choice among its labels, the
\* count of locations, selected_entry = mapping[loc_choice]["entry"]
SelectLocation ==
    /\ pc = "select"
    /\ LET m == build_mapping(Entries(raw), 1, <<>>) IN
          /\ mapping' = m
          /\ \E i \in 1..Len(m) :
                /\ loc_choice' = m[i].label
                /\ selected_entry' = m[i].entry
          /\ Render(<<"selectbox: location", "metric: locations">>)
    /\ pc' = "normalize"
    /\ UNCHANGED <<callVars, net, show, raw, df, start_dt, df_sel, now, prep, matrix, exc>>

IsEmpty(frame) == frame.rows = <<>>

\* df = flatten_cuaca_entry(selected_entry); if df.empty: warning, stop
Normalize ==
    /\ pc = "normalize"
    /\ LET res == flatten_cuaca_entry(selected_entry) IN
          /\ selected_entry' = res.entry
          /\ IF res.ret.kind = "raise"
             THEN Raise(res.ret.exc) /\ df' = df /\ shown' = shown
             ELSE /\ df' = res.ret.df
                  /\ exc' = exc
                  /\ IF IsEmpty(res.ret.df)
                     THEN Render(<<"warning: No valid weather data found.">>) /\ Stop
                     ELSE pc' = "ws_kt" /\ shown' = shown
    /\ UNCHANGED <<callVars, net, show, raw, mapping, loc_choice,
                   start_dt, df_sel, now, prep, matrix>>

\* df[c] = values, one value for each row; a new column when c is none yet
with_column(frame, c, values) ==
    [columns |-> frame.columns \cup {c},
     rows |-> [i \in 1..Len(frame.rows) |->
                 [k \in frame.columns \cup {c} |->
                     IF k = c THEN values[i] ELSE frame.rows[i][k]]]]

ws_taken_as_knots(row) == IF IsNum(row["ws"]) THEN Num(Val(row["ws"]) * (KT \div Unit)) ELSE NaN

\* df["ws"] * MS_TO_KT: NaN stays NaN
ws_times_factor(row) == IF IsNum(row["ws"]) THEN Num(Val(row["ws"]) * MS_TO_KT) ELSE NaN
\* pd.to_numeric(df["ws_kt"]): the column is numeric already; its values,
\* in 1/Unit, are carried in 1/KT from here on
own_ws_kt(row) ==
    LET v == to_numeric(row["ws_kt"]) IN IF IsNum(v) THEN Num(Val(v) * (KT \div Unit)) ELSE NaN

\* if "ws_kt" not in df.columns: df["ws_kt"] = df["ws"] * MS_TO_KT
\* else: df["ws_kt"] = pd.to_numeric(df["ws_kt"], errors="coerce")
ComputeWsKt ==
    /\ pc = "ws_kt"
    /\ IF "ws_kt" \notin df.columns
       THEN IF "ws" \in df.columns
            THEN df' = with_column(df, "ws_kt", [i \in 1..Len(df.rows) |-> ws_times_factor(df.rows[i])]) /\ pc' = "slider" /\ exc' = exc
            ELSE Raise("KeyError") /\ df' = df
       ELSE df' = with_column(df, "ws_kt", [i \in 1..Len(df.rows) |-> own_ws_kt(df.rows[i])]) /\ pc' = "slider" /\ exc' = exc
    /\ UNCHANGED <<callVars, net, show, raw, mapping, loc_choice, selected_entry,
                   start_dt, df_sel, now, prep, matrix, shown>>

\* whether some value of the column is not null
any_notna(frame, c) == \E i \in 1..Len(frame.rows) : notna(frame.rows[i][c])

\* a timestamp sorts before a later one and before a null one
sorts_before(a, b) == a[1] = "dt" /\ (b[1] = "dt" => Val(a) < Val(b))

\* the row put in its place among rows that are sorted already
RECURSIVE insert_sorted(_, _, _)
insert_sorted(rows, row, c) ==
    IF rows = <<>> THEN <<row>>
    ELSE IF sorts_before(row[c], Head(rows)[c]) THEN <<row>> \o rows
    ELSE <<Head(rows)>> \o insert_sorted(Tail(rows), row, c)

\* df.sort_values(c): rows of equal time keep their order
RECURSIVE sort_rows(_, _)
sort_rows(rows, c) ==
    IF rows = <<>> THEN <<>>
    ELSE insert_sorted(sort_rows(SubSeq(rows, 1, Len(rows) - 1), c), rows[Len(rows)], c)

sort_values_keeps_order(frame, c) == frame

sort_values(frame, c) == [frame EXCEPT !.rows = sort_rows(frame.rows, c)]

column_times(frame, c) == {Val(frame.rows[i][c]) : i \in {j \in 1..Len(frame.rows) : notna(frame.rows[j][c])}}
SetMin(S) == CHOOSE x \in S : \A y \in S : x <= y
SetMax(S) == CHOOSE x \in S : \A y \in S : y <= x

\* "local_datetime_dt" when some local timestamp parsed, else
\* "utc_datetime_dt" when some UTC timestamp parsed, else None
use_col_of(frame) ==
    IF any_notna(frame, "local_datetime_dt") THEN "local_datetime_dt"
    ELSE IF any_notna(frame, "utc_datetime_dt") THEN "utc_datetime_dt"
    ELSE "None"

\* pd.Timedelta(hours=3), in seconds
THREE_HOURS == 10800

\* value=(min_dt, min_dt + 3 h) if len(df) > 1 else (min_dt, max_dt)
default_range(frame, min_dt, max_dt) ==
    IF Len(frame.rows) > 1 THEN <<min_dt, min_dt + THREE_HOURS>> ELSE <<min_dt, max_dt>>

\* the ranges the slider can be set to: both ends on the 3 h grid from min_dt
slider_ranges(min_dt, max_dt) ==
    LET grid == {min_dt + k * THREE_HOURS : k \in 0..((max_dt - min_dt) \div THREE_HOURS)}
    IN {<<lo, hi>> : lo \in grid, hi \in grid} \cap {r \in grid \X grid : r[1] <= r[2]}

\* df.loc[(df[c] >= lo) & (df[c] <= hi)]: a null time compares False
select_range(frame, c, range) ==
    [frame EXCEPT !.rows =
        SelectSeq(frame.rows, LAMBDA row : /\ row[c][1] = "dt"
                                           /\ Val(row[c]) >= range[1]
                                           /\ Val(row[c]) <= range[2])]

\* the time column, the sort, the slider in the sidebar, df_sel and now.
\* st.slider widens [min_value, max_value] to hold its default value; the
\* range of the run is any range the user can have set it to.
TimeSlider ==
    /\ pc = "slider"
    /\ LET c == use_col_of(df) IN
       IF c = "None"
       THEN /\ df' = df /\ start_dt' = start_dt
            /\ df_sel' = df
            /\ now' = df.rows[1]
            /\ pc' = "prepare" /\ shown' = shown
       ELSE LET sorted == sort_values(df, c)
                min_dt == SetMin(column_times(df, c))
                max_dt == SetMax(column_times(df, c))
                dflt == default_range(df, min_dt, max_dt)
                top == IF dflt[2] > max_dt THEN dflt[2] ELSE max_dt
            IN /\ df' = sorted
               /\ \E range \in slider_ranges(min_dt, top) :
                     LET sel == select_range(sorted, c, range) IN
                        /\ start_dt' = range
                        /\ df_sel' = sel
                        /\ IF IsEmpty(sel)
                           THEN /\ Render(<<"slider: time range",
                                            "warning: No data in selected time range.">>)
                                /\ Stop /\ now' = now
                           ELSE /\ Render(<<"slider: time range">>)
                                /\ now' = sel.rows[1]
                                /\ pc' = "prepare"
    /\ UNCHANGED <<callVars, net, show, raw, mapping, loc_choice, selected_entry,
                   prep, matrix, exc>>

\* now.get(k): the value of the column, None when the table has no such column
now_get(row, k) == IF k \in DOMAIN row THEN row[k] ELSE None

\* temp - ((100 - rh) / 5), in 1/(5 * Unit) degrees
estimate_dewpoint(temp, rh) ==
    IF isna(temp) \/ isna(rh) THEN None
    ELSE Num(5 * Val(temp) - (100 * Unit - Val(rh)))

\* round(x) of a float in 1/Unit: to the nearest integer, a tie to the even one
round_half_even(v) ==
    LET q == v \div Unit
        r == v % Unit
    IN IF 2 * r < Unit THEN q
       ELSE IF 2 * r > Unit THEN q + 1
       ELSE IF q % 2 = 0 THEN q ELSE q + 1

\* safe_int(val, default=0) of a payload number
safe_int(val) == IF val = None \/ val = NaN THEN 0 ELSE round_half_even(Val(val))
\* safe_int(ceiling_est_ft, default=0): the estimate is a whole number of feet
safe_int_ft(val) == IF val = None \/ val = NaN THEN 0 ELSE Val(val)
\* safe_float(val, default=0.0)
safe_float(val) == IF val = None \/ val = NaN THEN 0 ELSE Val(val)

\* dewpt, ceiling_est_ft, ceiling_label and the HUD variables
PrepareValues ==
    /\ pc = "prepare"
    /\ LET ceiling == ceiling_proxy_from_tcc(now_get(now, "tcc")) IN
          prep' = [dewpt |-> estimate_dewpoint(now_get(now, "t"), now_get(now, "hu")),
                   ceiling_est_ft |-> ceiling.ft,
                   ceiling_label |-> ceiling.label,
                   wdir |-> safe_int(now_get(now, "wd_deg")),
                   wspd |-> safe_float(now_get(now, "ws_kt")),
                   vis |-> safe_int(now_get(now, "vs")),
                   ceil |-> safe_int_ft(ceiling.ft)]
    /\ pc' = "key_metrics"
    /\ UNCHANGED <<callVars, net, show, raw, mapping, loc_choice, selected_entry,
                   df, start_dt, df_sel, now, matrix, shown, exc>>

\* a section of the script that renders and goes on to the next section
Section(here, what, next) ==
    /\ pc = here
    /\ Render(what)
    /\ pc' = next
    /\ UNCHANGED <<callVars, net, show, raw, mapping, loc_choice, selected_entry,
                   df, start_dt, df_sel, now, prep, matrix, exc>>

KeyMetrics == Section("key_metrics", <<"panel: key metrics">>, "hud")
Hud == Section("hud", <<"panel: hud">>, "details")
Details == Section("details", <<"panel: details">>, "met_report")

\* if show_qam_report: the report, then the download button, whose file name
\* is now.get('local_datetime', '—').replace(...): AttributeError on a value
\* that is no text
MetReport ==
    /\ pc = "met_report"
    /\ IF ~show.qam
       THEN pc' = "matrix" /\ shown' = shown /\ exc' = exc
       ELSE IF now_get(now, "local_datetime") # None /\ now_get(now, "local_datetime")[1] # "str"
       THEN Render(<<"panel: met report">>) /\ Raise("AttributeError")
       ELSE /\ Render(<<"panel: met report", "download: met report">>)
            /\ pc' = "matrix" /\ exc' = exc
    /\ UNCHANGED <<callVars, net, show, raw, mapping, loc_choice, selected_entry,
                   df, start_dt, df_sel, now, prep, matrix>>

\* ifr_vfr = classify_ifr_vfr(now.get("vs"), ceiling_est_ft)
\* takeoff_reco, landing_reco, reco_rationale = takeoff_landing_recommendation(...)
DecisionMatrix ==
    /\ pc = "matrix"
    /\ LET reco == takeoff_landing_recommendation(now_get(now, "ws_kt"), now_get(now, "vs"),
                                                  now_get(now, "tp")) IN
          matrix' = [ifr_vfr |-> classify_ifr_vfr(now_get(now, "vs"), prep.ceiling_est_ft),
                     takeoff_reco |-> reco.takeoff,
                     landing_reco |-> reco.landing,
                     reco_rationale |-> reco.rationale]
    /\ Render(<<"panel: decision matrix">>)
    /\ pc' = "trends"
    /\ UNCHANGED <<callVars, net, show, raw, mapping, loc_choice, selected_entry,
                   df, start_dt, df_sel, now, prep, exc>>

\* the four charts in the order of the script, up to the first whose column
\* the table lacks (px.line / px.bar raise ValueError there)
RECURSIVE charts_drawn(_, _)
charts_drawn(cols, frame) ==
    IF cols = <<>> \/ Head(cols) \notin frame.columns THEN <<>>
    ELSE <<"chart: " \o Head(cols)>> \o charts_drawn(Tail(cols), frame)

TREND_COLUMNS == <<"t", "hu", "ws_kt", "tp">>

Trends ==
    /\ pc = "trends"
    /\ LET drawn == charts_drawn(TREND_COLUMNS, df_sel) IN
          /\ Render(drawn)
          /\ IF Len(drawn) < Len(TREND_COLUMNS)
             THEN Raise("ValueError")
             ELSE pc' = "windrose" /\ exc' = exc
    /\ UNCHANGED <<callVars, net, show, raw, mapping, loc_choice, selected_entry,
                   df, start_dt, df_sel, now, prep, matrix>>

\* the windrose, or a note when no row has both wd_deg and ws_kt
Windrose ==
    /\ pc = "windrose"
    /\ IF "wd_deg" \in df_sel.columns /\ "ws_kt" \in df_sel.columns
       THEN IF \E i \in 1..Len(df_sel.rows) :
                   notna(df_sel.rows[i]["wd_deg"]) /\ notna(df_sel.rows[i]["ws_kt"])
            THEN Render(<<"chart: windrose">>)
            ELSE Render(<<"info: Insufficient wind data for Windrose plot.">>)
       ELSE Render(<<"info: Wind data not available in dataset for windrose.">>)
    /\ pc' = "map"
    /\ UNCHANGED <<callVars, net, show, raw, mapping, loc_choice, selected_entry,
                   df, start_dt, df_sel, now, prep, matrix, exc>>

\* float(x) of a field of lokasi (0 when lokasi lacks it) succeeds
float_ok(x) == x[1] = "num" \/ (x[1] = "str" /\ IsNum(ParseFloat(x[2])))

\* if show_map: the map, or "Map unavailable" when float(lat / lon) raises
Map ==
    /\ pc = "map"
    /\ LET lok == dict_get(selected_entry, "lokasi", EmptyDict) IN
       IF ~show.map THEN shown' = shown
       ELSE IF float_ok(dict_get(lok, "lat", Num(0))) /\ float_ok(dict_get(lok, "lon", Num(0)))
       THEN Render(<<"map">>)
       ELSE Render(<<"warning: Map unavailable">>)
    /\ pc' = "table"
    /\ UNCHANGED <<callVars, net, show, raw, mapping, loc_choice, selected_entry,
                   df, start_dt, df_sel, now, prep, matrix, exc>>

\* if show_table: st.dataframe(df_sel)
Table ==
    /\ pc = "table"
    /\ IF show.table THEN Render(<<"table">>) ELSE shown' = shown
    /\ pc' = "export"
    /\ UNCHANGED <<callVars, net, show, raw, mapping, loc_choice, selected_entry,
                   df, start_dt, df_sel, now, prep, matrix, exc>>

Export == Section("export", <<"download: csv", "download: json">>, "footer")

Except_then_export ==
    /\ pc = "except"
    /\ Render(<<CASE exc = "HTTPError" -> "error: API Error"
                  [] exc = "ConnectionError" -> "error: Connection Error"
                  [] OTHER -> "error: An unexpected error occurred">>)
    /\ pc' = "export"
    /\ UNCHANGED <<callVars, net, show, raw, mapping, loc_choice, selected_entry,
                   df, start_dt, df_sel, now, prep, matrix, exc>>

\* the except clauses that close the try block
Except ==
    /\ pc = "except"
    /\ Render(<<CASE exc = "HTTPError" -> "error: API Error"
                  [] exc = "ConnectionError" -> "error: Connection Error"
                  [] OTHER -> "error: An unexpected error occurred">>)
    /\ pc' = "footer"
    /\ UNCHANGED <<callVars, net, show, raw, mapping, loc_choice, selected_entry,
                   df, start_dt, df_sel, now, prep, matrix, exc>>

Footer == Section("footer", <<"footer">>, "done")

Next ==
    \/ Fetch \/ CheckEntries \/ SelectLocation \/ Normalize \/ ComputeWsKt
    \/ TimeSlider \/ PrepareValues \/ KeyMetrics \/ Hud \/ Details \/ MetReport
    \/ DecisionMatrix \/ Trends \/ Windrose \/ Map \/ Table \/ Export
    \/ Except \/ Footer

Spec == InitRun /\ [][Next]_vars

-----------------------------------------------------------------------------
(* convert_vis_to_sm, and calls of the derived-metrics functions *)

\* METER_TO_SM = 0.000621371, in 1/10^9 statute miles per metre
METER_TO_SM == 621371
\* one statute mile in the unit of vis_sm below
SM == 100000000

\* vis_sm = vis_m * METER_TO_SM, in 1/SM statute miles, for vis_m in 1/Unit
\* metres; the product is taken in two parts to stay within 32 bits
vis_sm_of(vis_m) ==
    vis_m * (METER_TO_SM \div 1000) + (vis_m * (METER_TO_SM % 1000)) \div 1000

\* f"{vis_sm:.1f} SM"
one_decimal_sm(vis_sm) ==
    LET tenths == (vis_sm + SM \div 20) \div (SM \div 10)
    IN IntToStr(tenths \div 10) \o "." \o IntToStr(tenths % 10) \o " SM"

\* f"{int(vis_sm)} SM"
int_sm(vis_sm) == IntToStr(vis_sm \div SM) \o " SM"

\* f"{int(round(vis_sm))} SM": to the nearest integer, a tie to the even one
round_sm(vis_sm) ==
    LET q == vis_sm \div SM
        r == vis_sm % SM
    IN IntToStr(IF 2 * r < SM THEN q
                ELSE IF 2 * r > SM THEN q + 1
                ELSE IF q % 2 = 0 THEN q ELSE q + 1) \o " SM"

\* the dash returned for a visibility that is not available
DASH == "-"

convert_vis_to_sm(visibility_m) ==
    IF isna(visibility_m) \/ visibility_m = None THEN DASH
    ELSE LET vis_sm == vis_sm_of(Val(visibility_m)) IN
         IF vis_sm < 1 * SM THEN one_decimal_sm(vis_sm)
         ELSE IF vis_sm < 5 * SM
         THEN IF (vis_sm * 2) % (2 * SM) = 0 THEN int_sm(vis_sm) ELSE one_decimal_sm(vis_sm)
         ELSE round_sm(vis_sm)

TempInputs == {None, NaN} \cup {Num(n) : n \in Near(30 * Unit, Margin)}
RhInputs == {None, NaN} \cup {Num(n) : n \in {0, 100 * PCT} \cup Near(80 * PCT, Margin)}
VisSmInputs ==
    {None, NaN} \cup
    {Num(n) : n \in {0, 50000, 200000, 1000000} \cup Near(1 * METERS_PER_SM, Margin)
                    \cup Near(5 * METERS_PER_SM, Margin)}

CallDewpoint ==
    /\ prevCall = NoCall
    /\ \E temp \in TempInputs, rh \in RhInputs :
          call' = [fn |-> "estimate_dewpoint",
                   args |-> <<temp, rh>>,
                   ret |-> estimate_dewpoint(temp, rh)]
    /\ prevCall' = call
    /\ UNCHANGED <<entry, runVars>>

CallVisSm ==
    /\ prevCall = NoCall
    /\ \E visibility_m \in VisSmInputs :
          call' = [fn |-> "convert_vis_to_sm",
                   args |-> <<visibility_m>>,
                   ret |-> convert_vis_to_sm(visibility_m)]
    /\ prevCall' = call
    /\ UNCHANGED <<entry, runVars>>

NextDerived == CallDewpoint \/ CallCeiling \/ CallVisSm \/ CallClassify

SpecDerived == InitCalls /\ [][NextDerived]_vars

-----------------------------------------------------------------------------
(* generate_hud_wind_barb_svg and generate_inline_wind_barb_html *)

\* while remaining_wspd >= limit: draw one feather; remaining_wspd -= step.
\* remaining_wspd, limit and step are in 1/Unit knots; acc = [n, rem]: the
\* feathers drawn and what remains
RECURSIVE feather_loop(_, _, _)
feather_loop(acc, limit, step) ==
    IF acc.rem >= limit
    THEN feather_loop([n |-> acc.n + 1, rem |-> acc.rem - step], limit, step)
    ELSE acc

\* what a generator draws: the calm symbol, or the staff turned by
\* rotation_angle with its flags, full barbs and half barbs
Calm == [calm |-> TRUE, flags |-> 0, barbs |-> 0, halves |-> 0]
Barb(rotation_angle, flags, barbs, halves) ==
    [calm |-> FALSE, rotation_angle |-> rotation_angle,
     flags |-> flags, barbs |-> barbs, halves |-> halves]

generate_hud_wind_barb_svg(wdir, wspd_kt) ==
    IF wspd_kt < 250 THEN Calm
    ELSE LET fl == feather_loop([n |-> 0, rem |-> wspd_kt], 4750, 50 * Unit)
             ba == feather_loop([n |-> 0, rem |-> fl.rem], 750, 10 * Unit)
         IN Barb(wdir - 180, fl.n, ba.n, IF ba.rem >= 250 THEN 1 ELSE 0)

generate_inline_wind_barb_html_flags_from_50(wdir, wspd_kt) ==
    IF wspd_kt < 250 THEN Calm
    ELSE LET fl == feather_loop([n |-> 0, rem |-> wspd_kt], 5000, 50 * Unit)
             ba == feather_loop([n |-> 0, rem |-> fl.rem], 750, 10 * Unit)
         IN Barb(wdir - 180, fl.n, ba.n, IF ba.rem >= 250 THEN 1 ELSE 0)

generate_inline_wind_barb_html(wdir, wspd_kt) ==
    IF wspd_kt < 250 THEN Calm
    ELSE LET fl == feather_loop([n |-> 0, rem |-> wspd_kt], 4750, 50 * Unit)
             ba == feather_loop([n |-> 0, rem |-> fl.rem], 750, 10 * Unit)
         IN Barb(wdir - 180, fl.n, ba.n, IF ba.rem >= 250 THEN 1 ELSE 0)

\* wind speeds in 1/Unit knots, around each limit of the loops
WspdInputs ==
    {0, 1000, 2000, 4500, 9500, 10000, 14900} \cup Near(250, Margin) \cup Near(750, Margin)
    \cup Near(4750, Margin) \cup Near(5000, Margin) \cup Near(9750, Margin)
WdirInputs == {0, 270}

CallHudBarb ==
    /\ prevCall = NoCall
    /\ \E wdir \in WdirInputs, wspd_kt \in WspdInputs :
          call' = [fn |-> "generate_hud_wind_barb_svg",
                   args |-> <<wdir, wspd_kt>>,
                   ret |-> generate_hud_wind_barb_svg(wdir, wspd_kt)]
    /\ prevCall' = call
    /\ UNCHANGED <<entry, runVars>>

CallInlineBarb ==
    /\ prevCall = NoCall
    /\ \E wdir \in WdirInputs, wspd_kt \in WspdInputs :
          call' = [fn |-> "generate_inline_wind_barb_html",
                   args |-> <<wdir, wspd_kt>>,
                   ret |-> generate_inline_wind_barb_html(wdir, wspd_kt)]
    /\ prevCall' = call
    /\ UNCHANGED <<entry, runVars>>

NextBarbs == CallHudBarb \/ CallInlineBarb

SpecBarbs == InitCalls /\ [][NextBarbs]_vars

-----------------------------------------------------------------------------
(* The readings of the HUD panel *)

\* what hud_svg displays of the HUD variables p (wdir, wspd, vis, ceil):
\* "HDG {_wdir:03d}", the wind barb, "WIND {_wdir} / {_wspd:.1f} KT",
\* "VIS: {_vis} m ({convert_vis_to_sm(_vis)})", "CEIL: {_ceil} ft".
\* p.wspd is in 1/KT knots and the generator takes 1/Unit knots.
hud_svg(p) ==
    [hdg |-> Num(p.wdir),
     barb |-> generate_hud_wind_barb_svg(p.wdir, p.wspd \div (KT \div Unit)),
     wind_dir |-> Num(p.wdir),
     wind_kt |-> Num(p.wspd),
     vis_m |-> Num(p.vis),
     vis_sm |-> convert_vis_to_sm(Num(p.vis * Unit)),
     ceil_ft |-> Num(p.ceil)]

-----------------------------------------------------------------------------
(* Severity order of the recommendation statuses *)

Sev(status) ==
    CASE status = Recommended -> 0
      [] status = Caution -> 1
      [] status = NotRecommended -> 2

MaxSev(S) == IF S = {} THEN 0 ELSE CHOOSE m \in S : \A x \in S : x <= m

IsRecoCall(c) == c.fn = "takeoff_landing_recommendation"

\* the severities the rules that fire on (ws_kt, vs_m, tp_mm) assign
TakeoffAssigned(a) ==
    (IF notna(a[1]) /\ Val(a[1]) >= 30 * KT THEN {2} ELSE {}) \cup
    (IF notna(a[3]) /\ Val(a[3]) >= 20 * MM THEN {1} ELSE {})
LandingAssigned(a) ==
    TakeoffAssigned(a) \cup
    (IF notna(a[2]) /\ Val(a[2]) < 1000 * M THEN {2} ELSE {})

\* C1: the returned takeoff status and the returned landing status are each
\* the most severe status a fired rule assigned; a "Not Recommended" of the
\* wind or visibility rule is not turned into "Caution" by the rain rule.
C1_MostSevereStatusWins ==
    IsRecoCall(call) =>
        /\ Sev(call.ret.takeoff) = MaxSev(TakeoffAssigned(call.args))
        /\ Sev(call.ret.landing) = MaxSev(LandingAssigned(call.args))

\* component-wise "equal or worse": wind not lower, visibility not higher,
\* rain not lower; a missing component is only comparable with a missing one
SameOrMore(x, y) == IF IsNum(x) /\ IsNum(y) THEN Val(x) <= Val(y) ELSE isna(x) /\ isna(y)
EqualOrWorse(a, b) ==
    /\ SameOrMore(a[1], b[1])
    /\ SameOrMore(b[2], a[2])
    /\ SameOrMore(a[3], b[3])

\* C2: monotonic tightening: a second input that is equal or worse in every
\* component gets a takeoff and a landing severity that are not lower.
C2_MonotonicTightening ==
    (IsRecoCall(prevCall) /\ IsRecoCall(call) /\ EqualOrWorse(prevCall.args, call.args)) =>
        /\ Sev(call.ret.takeoff) >= Sev(prevCall.ret.takeoff)
        /\ Sev(call.ret.landing) >= Sev(prevCall.ret.landing)

-----------------------------------------------------------------------------
(* End-to-end scenario *)

\* the sections of the script in the order a run goes through them
ScriptOrder ==
    <<"fetch", "entries", "select", "normalize", "ws_kt", "slider", "prepare",
      "key_metrics", "hud", "details", "met_report", "matrix", "trends", "windrose",
      "map", "table", "export", "footer", "done">>
Place(section) == CHOOSE i \in 1..Len(ScriptOrder) : ScriptOrder[i] = section
\* the run went through `section` and no exception or stop ended it
Past(section) == pc \notin {"except", "stopped"} /\ exc = None /\ Place(pc) > Place(section)

ScenarioResponse == Dict([data |-> List(<<BlockJakarta>>)])
InSeq(x, q) == \E i \in 1..Len(q) : q[i] = x

-----------------------------------------------------------------------------
(* Flight-rules classification *)

IsClassifyCall(c) == c.fn = "classify_ifr_vfr"
BothPresent(a) == IsNum(a[1]) /\ IsNum(a[2])

\* C4: with visibility and ceiling both present the result is "VFR" exactly
\* when visibility >= 5 SM and ceiling > 3000 ft; at exactly 5 SM and
\* 3000 ft the result is "MVFR".
C4_VfrBoundary ==
    (IsClassifyCall(call) /\ BothPresent(call.args)) =>
        /\ (call.ret = "VFR") <=>
              (Val(call.args[1]) >= 5 * METERS_PER_SM /\ Val(call.args[2]) > 3000)
        /\ (call.args = <<Num(5 * METERS_PER_SM), Num(3000)>>) => call.ret = "MVFR"

C4_Witness ==
    /\ IsClassifyCall(call)
    /\ call.args = <<Num(5 * METERS_PER_SM), Num(3000)>>
    /\ call.ret = "MVFR"
    /\ IsClassifyCall(prevCall)
    /\ prevCall.args = <<Num(5 * METERS_PER_SM), Num(3001)>>
    /\ prevCall.ret = "VFR"

\* C5: with visibility and ceiling both present, visibility below 3 SM or a
\* ceiling at or below 1000 ft gives "IFR" whatever the other quantity is.
C5_IfrWhateverTheOther ==
    (IsClassifyCall(call) /\ BothPresent(call.args)) =>
        ((Val(call.args[1]) < 3 * METERS_PER_SM \/ Val(call.args[2]) <= 1000)
            => call.ret = "IFR")

-----------------------------------------------------------------------------
(* Ceiling proxy *)

IsCeilingCall(c) == c.fn = "ceiling_proxy_from_tcc"

BandFt(tcc) ==
    IF tcc < 1 * PCT THEN 99999
    ELSE IF tcc < 25 * PCT THEN 3500
    ELSE IF tcc < 50 * PCT THEN 2250
    ELSE IF tcc < 75 * PCT THEN 1250
    ELSE 800

BandLabel(ft) ==
    CASE ft = 99999 -> "SKC (Clear)"
      [] ft = 3500 -> "FEW (>3000 ft)"
      [] ft = 2250 -> "SCT (1500-3000 ft)"
      [] ft = 1250 -> "BKN (1000-1500 ft)"
      [] ft = 800 -> "OVC (<1000 ft)"

-----------------------------------------------------------------------------
(* Normalizer *)

IsFlattenCall(c) == c.fn = "flatten_cuaca_entry"

\* C7: flatten_cuaca_entry returns a table and does not raise, whatever the
\* shape of the block: empty or absent cuaca, absent lokasi or lokasi keys,
\* a group that is a dict, entries of a group that are no dicts.
C7_NormalizerTotal ==
    IsFlattenCall(call) => call.ret.kind = "df"

RECURSIVE Concat(_)
Concat(qs) == IF qs = <<>> THEN <<>> ELSE Head(qs) \o Concat(Tail(qs))

\* the valid (dict) entries of a block, in group order and then entry order
ValidEntries(e) ==
    LET groups == dict_get(e, "cuaca", List(<<>>))[2]
    IN Concat([g \in 1..Len(groups) |-> SelectSeq(iterate(groups[g]), IsDict)])

\* C8: the table holds one record for each valid entry of the block, in
\* group order and then entry order; an entry that is no dict is dropped.
C8_OneRecordPerValidEntry ==
    IsFlattenCall(call) =>
        LET e == call.args[1]
            valid == ValidEntries(e)
            lokasi == dict_get(e, "lokasi", EmptyDict)
        IN /\ call.ret.kind = "df"
           /\ Len(call.ret.df.rows) = Len(valid)
           /\ \A i \in 1..Len(valid) :
                 \A k \in Keys(valid[i]) \ (LOKASI_KEYS \cup NUMERIC_COLUMNS) :
                    call.ret.df.rows[i][k] = valid[i][2][k]

\* C9: every record of the table carries the six location keys with the
\* values of the block's lokasi (null where lokasi lacks the key), also when
\* the observation has a field of the same name.
C9_LocationContext ==
    (IsFlattenCall(call) /\ call.ret.kind = "df") =>
        LET lokasi == dict_get(call.args[1], "lokasi", EmptyDict)
        IN \A i \in 1..Len(call.ret.df.rows) :
              \A k \in LOKASI_KEYS :
                 /\ k \in call.ret.df.columns
                 /\ call.ret.df.rows[i][k] = dict_get(lokasi, k, None)

\* a record made from the observation that has its own kotkab and lat, in a
\* block whose lokasi says otherwise and lacks adm1
C9_Witness ==
    /\ IsFlattenCall(call) /\ call.ret.kind = "df"
    /\ dict_get(call.args[1], "lokasi", EmptyDict) = LokasiJakarta
    /\ \E i \in 1..Len(call.ret.df.rows) :
          /\ call.ret.df.rows[i]["local_datetime"] = Str("n/a")
          /\ call.ret.df.rows[i]["kotkab"] = Str("Jakarta")
          /\ call.ret.df.rows[i]["lat"] = Str("-6.2")
          /\ call.ret.df.rows[i]["adm1"] = None

-----------------------------------------------------------------------------
(* Recommendation: missing inputs, the default rationale, landing and takeoff *)

Statuses == {Recommended, Caution, NotRecommended}
AllMissing(a) == isna(a[1]) /\ isna(a[2]) /\ isna(a[3])

\* C17: when wind speed, visibility and accumulated rain are all missing or
\* NaN, what is returned for takeoff and for landing is an "unavailable"
\* indication, not one of the recommendation statuses.
C17_AllMissingUnavailable ==
    (IsRecoCall(call) /\ AllMissing(call.args)) =>
        /\ call.ret.takeoff \notin Statuses
        /\ call.ret.landing \notin Statuses

WithinLimits == "Conditions within conservative operational limits."

\* wind < 20 kt or missing, visibility >= 1000 m or missing, rain <= 5 mm or
\* missing
NoRuleFired(a) ==
    /\ isna(a[1]) \/ Val(a[1]) < 20 * KT
    /\ isna(a[2]) \/ Val(a[2]) >= 1000 * M
    /\ isna(a[3]) \/ Val(a[3]) <= 5 * MM

\* C18: takeoff = landing = "Recommended" with the rationale holding exactly
\* the one "within limits" entry is returned if and only if no rule fired;
\* in every other case the rationale is non-empty and has no "within limits"
\* entry.
C18_DefaultIffNoRuleFired ==
    IsRecoCall(call) =>
        /\ (/\ call.ret.takeoff = Recommended
            /\ call.ret.landing = Recommended
            /\ call.ret.rationale = <<WithinLimits>>) <=> NoRuleFired(call.args)
        /\ ~NoRuleFired(call.args) =>
              /\ call.ret.rationale # <<>>
              /\ ~InSeq(WithinLimits, call.ret.rationale)

\* at the edge of all three rules nothing fires; one step more of rain adds
\* the note and leaves both statuses "Recommended"
C18_Witness ==
    /\ IsRecoCall(prevCall)
    /\ prevCall.args = <<Num(20 * KT - 1), Num(1000 * M), Num(5 * MM)>>
    /\ prevCall.ret = [takeoff |-> Recommended, landing |-> Recommended,
                       rationale |-> <<WithinLimits>>]
    /\ IsRecoCall(call)
    /\ call.args = <<Num(20 * KT - 1), Num(1000 * M), Num(5 * MM + 1)>>
    /\ call.ret = [takeoff |-> Recommended, landing |-> Recommended,
                   rationale |-> <<"Moderate rainfall">>]

\* C20: for every input the landing status is at least as severe as the
\* takeoff status (Recommended < Caution < Not Recommended).
C20_LandingNotLessSevere ==
    IsRecoCall(call) => Sev(call.ret.landing) >= Sev(call.ret.takeoff)

\* low visibility alone: landing "Not Recommended", takeoff "Recommended"
C20_Witness ==
    /\ IsRecoCall(call)
    /\ call.args = <<NaN, Num(1000 * M - 1), Num(5 * MM)>>
    /\ call.ret.landing = NotRecommended
    /\ call.ret.takeoff = Recommended

-----------------------------------------------------------------------------
(* Missing inputs of the derived-metrics functions *)

IsDewpointCall(c) == c.fn = "estimate_dewpoint"
IsVisSmCall(c) == c.fn = "convert_vis_to_sm"
SomeMissing(a) == \E i \in 1..Len(a) : isna(a[i])

\* C16: whenever an input is missing or NaN, estimate_dewpoint returns None,
\* ceiling_proxy_from_tcc returns (None, "Unknown"), convert_vis_to_sm
\* returns the dash and classify_ifr_vfr returns "Unknown".
C16_SentinelOnMissing ==
    /\ (IsDewpointCall(call) /\ SomeMissing(call.args)) => call.ret = None
    /\ (IsCeilingCall(call) /\ SomeMissing(call.args)) =>
          call.ret = [ft |-> None, label |-> "Unknown"]
    /\ (IsVisSmCall(call) /\ SomeMissing(call.args)) => call.ret = DASH
    /\ (IsClassifyCall(call) /\ SomeMissing(call.args)) => call.ret = "Unknown"

-----------------------------------------------------------------------------
(* Failures of a dashboard run *)

NetworkErrors == {"HTTPError", "ConnectionError", "Timeout"}
ErrorNotices ==
    {"error: API Error", "error: Connection Error", "error: An unexpected error occurred"}

\* C11: on a network error, a timeout or a non-2xx status fetch_forecast
\* returns a sentinel (None or an empty mapping) to its caller; no exception
\* leaves the call.
C11_FetchReturnsSentinel ==
    (net.kind \in NetworkErrors /\ pc # "fetch") =>
        /\ fetch_forecast(net).kind = "return"
        /\ fetch_forecast(net).value \in {None, EmptyDict}
        /\ exc \notin NetworkErrors

\* C12: when the fetch fails the run shows an error notice and processes
\* nothing further: no selector, panel, chart, map, table or export is
\* rendered, and nothing is computed from a response.
C12_FetchFailureBlocks ==
    net.kind \in NetworkErrors =>
        /\ pc \in {"fetch", "except", "footer", "done"}
        /\ \A i \in 1..Len(shown) : shown[i] \in ErrorNotices \cup {"footer"}
        /\ pc \in {"footer", "done"} => shown[1] \in ErrorNotices
        /\ raw = None /\ mapping = <<>> /\ selected_entry = None /\ df = None
        /\ df_sel = None /\ now = None /\ prep = None /\ matrix = None

C12_Witness ==
    /\ net.kind = "Timeout"
    /\ pc = "done"
    /\ exc = "Timeout"
    /\ shown = <<"error: An unexpected error occurred", "footer">>

\* what is rendered from the current record or the selected table
RecordOutputs ==
    {"panel: key metrics", "panel: hud", "panel: details", "panel: met report",
     "download: met report", "panel: decision matrix", "chart: t", "chart: hu",
     "chart: ws_kt", "chart: tp", "chart: windrose", "map", "table",
     "download: csv", "download: json"}

\* the run has halted on the warning `w`: it is the last thing rendered and
\* nothing of a record was rendered
HaltedOn(w) ==
    /\ pc = "stopped"
    /\ shown # <<>> /\ shown[Len(shown)] = w
    /\ \A i \in 1..Len(shown) : shown[i] \notin RecordOutputs

\* C13: a step that finds no entries in `data`, or normalizes the selected
\* location to zero records, or selects a time range with zero records,
\* ends with the "no data" warning rendered and the run halted; a halted run
\* takes no further step, so nothing is rendered after the warning.
C13_NoDataHalts ==
    [][/\ pc # "stopped"
       /\ (pc = "entries" /\ Entries(raw) = <<>>) =>
             HaltedOn("warning: No forecast data available.")'
       /\ (pc = "normalize" /\ pc' # "except" /\ IsEmpty(df')) =>
             HaltedOn("warning: No valid weather data found.")'
       /\ (pc = "slider" /\ IsEmpty(df_sel')) =>
             HaltedOn("warning: No data in selected time range.")']_vars

\* a run halted on an empty time range, the slider rendered before it
C13_Witness ==
    /\ pc = "stopped"
    /\ shown = <<"selectbox: location", "metric: locations", "slider: time range",
                 "warning: No data in selected time range.">>
    /\ IsEmpty(df_sel)

\* C14: a failure while a panel is rendered stays with that panel: a run
\* that reached the panels renders every one of them, the ones that come
\* after the failing panel included.
C14_PanelIndependence ==
    (pc = "done" /\ InSeq("panel: key metrics", shown)) =>
        /\ InSeq("panel: hud", shown)
        /\ InSeq("panel: details", shown)
        /\ show.qam => InSeq("panel: met report", shown)
        /\ InSeq("panel: decision matrix", shown)
        /\ InSeq("chart: windrose", shown)
              \/ InSeq("info: Insufficient wind data for Windrose plot.", shown)
              \/ InSeq("info: Wind data not available in dataset for windrose.", shown)
        /\ show.map => InSeq("map", shown) \/ InSeq("warning: Map unavailable", shown)
        /\ show.table => InSeq("table", shown)
        /\ InSeq("download: csv", shown) /\ InSeq("download: json", shown)

-----------------------------------------------------------------------------
(* Records of the normalized table and of the selected table *)

\* the run is inside the try block, at a section that comes after `section`
InTryAfter(section) ==
    \E i \in (Place(section) + 1)..Place("export") : ScriptOrder[i] = pc

\* the native wind speed of a record, missing when the table has no such column
ws_of(row) == IF "ws" \in DOMAIN row THEN row["ws"] ELSE NaN

\* C15: once ws_kt is derived, every record's ws_kt is its ws times 1.94384,
\* and is missing only when its ws is missing, also when an observation of
\* the payload carries a ws_kt of its own.
C15_KnotsFromNativeSpeed ==
    InTryAfter("ws_kt") =>
        \A i \in 1..Len(df.rows) :
           df.rows[i]["ws_kt"] = IF IsNum(ws_of(df.rows[i]))
                                 THEN Num(Val(ws_of(df.rows[i])) * MS_TO_KT)
                                 ELSE NaN

NoTimestamp(row) == row["utc_datetime_dt"] = NaT /\ row["local_datetime_dt"] = NaT

\* C19: a record whose timestamps are missing or do not parse is kept: the
\* table has one record for each observation, and a record with null
\* datetimes is still in the selected table df_sel once the time range is
\* chosen.
C19_UntimedRecordKept ==
    /\ InTryAfter("normalize") => Len(df.rows) = Len(ValidEntries(selected_entry))
    /\ InTryAfter("slider") =>
          \A i \in 1..Len(df.rows) : NoTimestamp(df.rows[i]) => InSeq(df.rows[i], df_sel.rows)

-----------------------------------------------------------------------------
(* Order of the flight categories *)

\* how restrictive a category is
Restrictive(category) ==
    CASE category = "VFR" -> 0
      [] category = "MVFR" -> 1
      [] category = "IFR" -> 2
      [] OTHER -> 3

\* the second input has a lower or equal visibility with the same ceiling,
\* or a lower or equal ceiling with the same visibility
LoweredInOne(a, b) ==
    \/ Val(b[1]) <= Val(a[1]) /\ b[2] = a[2]
    \/ b[1] = a[1] /\ Val(b[2]) <= Val(a[2])

\* C21: with visibility and ceiling both present, lowering the visibility
\* with the ceiling fixed, or the ceiling with the visibility fixed, never
\* yields a less restrictive category.
C21_ClassifyMonotone ==
    (/\ IsClassifyCall(prevCall) /\ IsClassifyCall(call)
     /\ BothPresent(prevCall.args) /\ BothPresent(call.args)
     /\ LoweredInOne(prevCall.args, call.args)) =>
        Restrictive(call.ret) >= Restrictive(prevCall.ret)

-----------------------------------------------------------------------------
(* Location mapping *)

\* C22: once the mapping is built and a label is chosen, the mapping has as
\* many labels as `data` has entries, every entry of `data` is the entry of
\* some label, and the selected entry is the entry of the chosen label.
C22_EveryBlockSelectable ==
    pc = "normalize" =>
        /\ Len(mapping) = Len(Entries(raw))
        /\ \A i \in 1..Len(Entries(raw)) :
              \E j \in 1..Len(mapping) : mapping[j].entry = Entries(raw)[i]
        /\ \E j \in 1..Len(mapping) :
              mapping[j].label = loc_choice /\ mapping[j].entry = selected_entry

-----------------------------------------------------------------------------
(* The current record *)

InRange(t, range) == t[1] = "dt" /\ Val(t) >= range[1] /\ Val(t) <= range[2]

\* C25: when some record of the selected location has a timestamp that
\* parses, `now` is a record of the selected time range whose timestamp (the
\* local one when any local timestamp parses, otherwise the UTC one) is the
\* earliest of the records inside that range.
C25_NowIsEarliestInRange ==
    (InTryAfter("slider") /\ use_col_of(df) # "None") =>
        LET c == use_col_of(df) IN
           /\ InSeq(now, df_sel.rows)
           /\ InRange(now[c], start_dt)
           /\ \A i \in 1..Len(df.rows) :
                 InRange(df.rows[i][c], start_dt) => Val(now[c]) <= Val(df.rows[i][c])

\* the Bogor block lists its 15:00 observation before its 12:00 one; with
\* both in the range the current record is the 12:00 one
C25_Witness ==
    /\ pc = "prepare"
    /\ loc_choice = Str("Bogor")
    /\ Len(df_sel.rows) = 2
    /\ now["local_datetime"] = Str("2025-01-01T12:00:00")

-----------------------------------------------------------------------------
(* Wind barbs *)

IsBarbCall(c) ==
    c.fn \in {"generate_hud_wind_barb_svg", "generate_inline_wind_barb_html"}

\* the speed the feathers stand for, in 1/Unit knots
Drawn(r) == (50 * r.flags + 10 * r.barbs + 5 * r.halves) * Unit
Feathers(r) == <<r.flags, r.barbs, r.halves>>
Abs(x) == IF x < 0 THEN 0 - x ELSE x

-----------------------------------------------------------------------------
(* Missing fields on the HUD *)

\* C24: once the HUD is rendered, a field of the current record that is
\* missing (visibility, wind speed, wind direction, ceiling estimate) is not
\* displayed as a number: no 0 m visibility, no 0 ft ceiling, no 0 kt wind
\* or calm symbol, no heading 000.
C24_HudShowsMissingAsUnavailable ==
    InTryAfter("hud") =>
        LET hud == hud_svg(prep) IN
           /\ isna(now_get(now, "vs")) => ~IsNum(hud.vis_m) /\ hud.vis_sm = DASH
           /\ isna(now_get(now, "ws_kt")) => ~IsNum(hud.wind_kt) /\ ~hud.barb.calm
           /\ isna(now_get(now, "wd_deg")) => ~IsNum(hud.hdg) /\ ~IsNum(hud.wind_dir)
           /\ isna(prep.ceiling_est_ft) => ~IsNum(hud.ceil_ft)


=============================================================================
